---- MODULE Spec2Model ----
\* Model of swagger-merger: pkg/merger (New, detectSwaggerVersion,
\* convertToOpenAPI3, mergeOpenAPI3, readDataFromPath, processSwaggerFile,
\* Merge, GetStats) and the input scan of cmd/swagger-merger main.
EXTENDS Integers, Sequences, FiniteSets, TLC

\* ---------------------------------------------------------------------
\* Bounds
\* ---------------------------------------------------------------------
\* longest input list (Config.InputPaths, --input tokens)
MaxInputs == 2
\* longest document sequence handed to mergeOpenAPI3 directly
MaxDocs == 3
\* number of Merge/GetStats calls made on one Merger
MaxCalls == 2

\* ---------------------------------------------------------------------
\* Go values: nil-able maps, slices and pointers
\* ---------------------------------------------------------------------
\* a nil map / nil slice / nil pointer
None == [nil |-> TRUE, v |-> <<>>]
\* a non-nil map / slice / pointer holding x
Some(x) == [nil |-> FALSE, v |-> x]
\* len(x) of a nil-able map or slice (len(nil) = 0)
Size(x) == IF x.nil THEN 0 ELSE Cardinality(DOMAIN x.v)
\* the keys a nil-able map declares (range over nil iterates nothing)
Keys(x) == IF x.nil THEN {} ELSE DOMAIN x.v
\* `for k, v := range src { dst[k] = v }` on Go maps
Overlay(dst, src) == [k \in (DOMAIN dst) \cup (DOMAIN src) |-> IF k \in DOMAIN src THEN src[k] ELSE dst[k]]
\* a map literal with one key
M1(k, x) == [i \in {k} |-> x]
\* a map literal with two keys
M2(k1, x1, k2, x2) == [i \in {k1, k2} |-> IF i = k1 THEN x1 ELSE x2]
\* a definition as written in a source file
Def(id) == [id |-> id, conv |-> FALSE]
\* largest element of a non-empty set of integers
MaxOf(S) == CHOOSE m \in S : \A n \in S : n <= m

\* ---------------------------------------------------------------------
\* Servers
\* ---------------------------------------------------------------------
\* merger.go: DefaultServers()
DefaultServers == << [URL |-> "https://api-dev.domain.com", Description |-> "Development Environment"],
                     [URL |-> "https://api-test.domain.com", Description |-> "Test Environment"],
                     [URL |-> "https://api-stg.domain.com", Description |-> "Staging Environment"],
                     [URL |-> "https://api.domain.com", Description |-> "Production Environment"] >>
\* a custom list with a duplicated entry
CustomServers == << [URL |-> "https://x", Description |-> "D"],
                    [URL |-> "https://x", Description |-> "D"],
                    [URL |-> "https://custom2.com", Description |-> "Custom 2"] >>
\* the server lists a caller hands to New: unset (nil), empty, custom
ServerChoices == { None, Some(<<>>), Some(CustomServers) }

\* ---------------------------------------------------------------------
\* Raw documents (the bytes of a file or of a response body)
\* ---------------------------------------------------------------------
\* syntax: "yaml"    block YAML, not JSON
\*         "json"    a JSON object (which is also a YAML flow mapping)
\*         "jsondup" a JSON object repeating a key: encoding/json accepts
\*                   it, yaml.v3 rejects it (mapping key already defined)
\*         "text"    neither a YAML mapping nor JSON
\* swagger/openapi: the top-level version keys (None when absent)
\* wellformed: whether the structural parse/conversion succeeds
\* comps: the components section (OpenAPI 3) or, for Swagger 2, the
\*        top-level definitions/responses/parameters in the same fields
\* version strings, as the characters the source file holds
V20 == << "2", ".", "0" >>
V300 == << "3", ".", "0", ".", "0" >>
V301 == << "3", ".", "0", ".", "1" >>
V303 == << "3", ".", "0", ".", "3" >>
NoComps == [Schemas |-> None, Responses |-> None, Parameters |-> None, RequestBodies |-> None, Headers |-> None, SecuritySchemes |-> None]
OrigServers == << [URL |-> "https://orig.example", Description |-> "declared"] >>

RawA == [syntax |-> "yaml", swagger |-> None, openapi |-> Some(V301), wellformed |-> TRUE,
         info |-> "API A", servers |-> Some(OrigServers),
         paths |-> Some(M1("/a", Def("a:/a"))),
         comps |-> Some([NoComps EXCEPT !.Schemas = Some(M1("S1", Def("a:S1"))), !.Headers = Some(M1("H1", Def("a:H1"))), !.SecuritySchemes = Some(M1("K1", Def("a:K1")))]),
         tags |-> Some(<<"A", "B">>)]
RawB == [syntax |-> "json", swagger |-> Some(V20), openapi |-> None, wellformed |-> TRUE,
         info |-> "API B", servers |-> Some(OrigServers),
         paths |-> Some(M1("/b", Def("b:/b"))),
         comps |-> Some([NoComps EXCEPT !.Schemas = Some(M1("S2", Def("b:S2"))), !.Parameters = Some(M1("P1", Def("b:P1")))]),
         tags |-> Some(<<"B", "C">>)]
RawC == [syntax |-> "yaml", swagger |-> None, openapi |-> Some(V300), wellformed |-> TRUE,
         info |-> "API C", servers |-> Some(OrigServers),
         paths |-> Some(M2("/a", Def("c:/a"), "/c", Def("c:/c"))),
         comps |-> Some([NoComps EXCEPT !.Schemas = Some(M1("S1", Def("c:S1"))), !.Responses = Some(M1("R1", Def("c:R1"))),
                                        !.RequestBodies = Some(M1("Q1", Def("c:Q1"))), !.Headers = Some(M1("H1", Def("c:H1"))),
                                        !.SecuritySchemes = Some(M1("K1", Def("c:K1")))]),
         tags |-> None]
\* an OpenAPI 3 document with no paths, no components and no tags
RawD == [syntax |-> "json", swagger |-> None, openapi |-> Some(V303), wellformed |-> TRUE,
         info |-> "API D", servers |-> None, paths |-> None, comps |-> None, tags |-> None]
\* a Swagger 2 JSON document that repeats a key
RawE == [syntax |-> "jsondup", swagger |-> Some(V20), openapi |-> None, wellformed |-> TRUE,
         info |-> "API E", servers |-> None,
         paths |-> Some(M1("/b", Def("e:/b"))),
         comps |-> Some([NoComps EXCEPT !.Responses = Some(M1("R1", Def("e:R1")))]),
         tags |-> Some(<<"A">>)]
\* a document declaring both keys
RawF == [syntax |-> "yaml", swagger |-> Some(V20), openapi |-> Some(V301), wellformed |-> TRUE,
         info |-> "API F", servers |-> None, paths |-> None, comps |-> None, tags |-> Some(<<>>)]
\* a mapping without a version key
RawNoKey == [RawD EXCEPT !.syntax = "yaml", !.openapi = None, !.info = "no key"]
\* plain text
RawText == [RawD EXCEPT !.syntax = "text", !.openapi = None, !.info = "text"]
\* an OpenAPI 3 document the loader rejects
RawBroken == [RawA EXCEPT !.wellformed = FALSE, !.info = "broken"]

\* ---------------------------------------------------------------------
\* The world outside the process: the filesystem and the HTTP servers
\* ---------------------------------------------------------------------
\* A locator is the string the caller passes; scheme is its leading
\* "http://" or "https://" ("" when it has neither), rest what follows.
File(name) == [scheme |-> "", rest |-> name]
Url(scheme, rest) == [scheme |-> scheme, rest |-> rest]
\* strings.HasPrefix(path, prefix) for the two prefixes the code tests
HasPrefix(path, prefix) == path.scheme = prefix
\* strings.HasPrefix(version, "3.")
HasPrefix3(version) == Len(version) >= 2 /\ version[1] = "3" /\ version[2] = "."

\* regular files on disk and their bytes
FileData == [n \in {"a.yaml", "b.json", "c.yaml", "d.json", "e.json", "f.yaml", "nokey.yaml", "text.txt", "broken.yaml",
                    "docs/a.yaml", "docs/c.yaml", "docs/notes.md"} |->
               CASE n \in {"a.yaml", "docs/a.yaml"} -> RawA
                 [] n = "b.json" -> RawB
                 [] n \in {"c.yaml", "docs/c.yaml"} -> RawC
                 [] n = "d.json" -> RawD
                 [] n = "e.json" -> RawE
                 [] n = "f.yaml" -> RawF
                 [] n = "nokey.yaml" -> RawNoKey
                 [] n = "broken.yaml" -> RawBroken
                 [] OTHER -> RawText]
\* directories on disk: the files filepath.Walk visits, in lexical order,
\* each with whether its base name matches the pattern *.yaml
DirFiles == [n \in {"docs"} |-> << [path |-> File("docs/a.yaml"), yaml |-> TRUE],
                                   [path |-> File("docs/c.yaml"), yaml |-> TRUE],
                                   [path |-> File("docs/notes.md"), yaml |-> FALSE] >>]
\* the answers of the HTTP servers: transport error, status, body, and
\* whether reading the body fails (the connection breaks mid-body)
HttpData == [n \in {"h/c.yaml", "h/created.json", "h/404", "h/down", "h/trunc.yaml"} |->
               CASE n = "h/c.yaml" -> [err |-> FALSE, status |-> 200, body |-> RawC, bodyErr |-> FALSE]
                 [] n = "h/created.json" -> [err |-> FALSE, status |-> 201, body |-> RawB, bodyErr |-> FALSE]
                 [] n = "h/404" -> [err |-> FALSE, status |-> 404, body |-> RawText, bodyErr |-> FALSE]
                 [] n = "h/trunc.yaml" -> [err |-> FALSE, status |-> 200, body |-> RawA, bodyErr |-> TRUE]
                 [] OTHER -> [err |-> TRUE, status |-> 0, body |-> RawText, bodyErr |-> FALSE]]

\* results: a value or an error
Ok(x) == [ok |-> TRUE, v |-> x, err |-> "", at |-> File("")]
Err(kind, path) == [ok |-> FALSE, v |-> <<>>, err |-> kind, at |-> path]

\* os.Stat(path): the literal string is looked up on disk, so a URL is
\* not found
Stat(path) == IF path.scheme # "" THEN [err |-> TRUE, isDir |-> FALSE]
              ELSE IF path.rest \in DOMAIN DirFiles THEN [err |-> FALSE, isDir |-> TRUE]
              ELSE IF path.rest \in DOMAIN FileData THEN [err |-> FALSE, isDir |-> FALSE]
              ELSE [err |-> TRUE, isDir |-> FALSE]
\* os.ReadFile(path)
ReadFile(path) == IF path.scheme = "" /\ path.rest \in DOMAIN FileData THEN Ok(FileData[path.rest]) ELSE Err("ReadFailed", path)
\* client.Get(path)
HttpGet(path) == IF path.rest \in DOMAIN HttpData THEN HttpData[path.rest] ELSE [err |-> TRUE, status |-> 0, body |-> RawText, bodyErr |-> FALSE]
\* http.StatusOK
StatusOK == 200

\* ---------------------------------------------------------------------
\* pkg/merger
\* ---------------------------------------------------------------------
\* New(config)
New(cfg) == IF cfg.Servers.nil THEN [cfg EXCEPT !.Servers = Some(DefaultServers)] ELSE cfg

\* yaml.Unmarshal(data, &obj) into an untyped map
YamlUnmarshal(data) == IF data.syntax \in {"yaml", "json"} THEN Ok([swagger |-> data.swagger, openapi |-> data.openapi]) ELSE Err("yaml", File(""))
\* json.Unmarshal(data, &obj) into an untyped map
JsonUnmarshal(data) == IF data.syntax \in {"json", "jsondup"} THEN Ok([swagger |-> data.swagger, openapi |-> data.openapi]) ELSE Err("json", File(""))
\* mutant: the openapi key is inspected before the swagger key
VersionOfOpenapiFirst(obj, isYAML) == IF ~obj.openapi.nil THEN Ok([Version |-> obj.openapi.v, IsYAML |-> isYAML])
                                      ELSE IF ~obj.swagger.nil THEN Ok([Version |-> obj.swagger.v, IsYAML |-> isYAML])
                                      ELSE Err("nokey", File(""))
\* the key inspection both attempts share
VersionOf(obj, isYAML) == IF ~obj.swagger.nil THEN Ok([Version |-> obj.swagger.v, IsYAML |-> isYAML])
                          ELSE IF ~obj.openapi.nil THEN Ok([Version |-> obj.openapi.v, IsYAML |-> isYAML])
                          ELSE Err("nokey", File(""))
\* detectSwaggerVersion(data)
detectSwaggerVersion(data) ==
  LET y == YamlUnmarshal(data)
      j == JsonUnmarshal(data)
  IN IF y.ok /\ VersionOf(y.v, TRUE).ok THEN VersionOf(y.v, TRUE)
     ELSE IF j.ok /\ VersionOf(j.v, FALSE).ok THEN VersionOf(j.v, FALSE)
     ELSE Err("UnknownFormat", File(""))

\* openapi3.NewLoader().LoadFromData(data)
LoadFromData(data) ==
  IF ~data.wellformed \/ data.syntax = "text" THEN Err("ParseFailed", File(""))
  ELSE Ok([OpenAPI |-> IF data.openapi.nil THEN <<>> ELSE data.openapi.v, Info |-> data.info,
           Servers |-> data.servers, Paths |-> data.paths, Components |-> data.comps, Tags |-> data.tags])
\* a definition after the Swagger 2 to OpenAPI 3 conversion
Converted(m) == [k \in DOMAIN m |-> [m[k] EXCEPT !.conv = TRUE]]
\* openapi2conv.ToV3 of the parsed Swagger 2 document
ToV3(data) ==
  LET c == IF data.comps.nil THEN NoComps ELSE data.comps.v
  IN [OpenAPI |-> V303, Info |-> data.info,
      Servers |-> IF Size(data.servers) = 0 THEN None ELSE data.servers,
      Paths |-> IF Size(data.paths) = 0 THEN None ELSE Some(Converted(data.paths.v)),
      Components |-> Some([NoComps EXCEPT
                             !.Schemas = Some(IF c.Schemas.nil THEN <<>> ELSE Converted(c.Schemas.v)),
                             !.Parameters = IF Size(c.Parameters) = 0 THEN None ELSE Some(Converted(c.Parameters.v)),
                             !.RequestBodies = IF Size(c.Parameters) = 0 THEN None ELSE Some(<<>>),
                             !.Responses = IF Size(c.Responses) = 0 THEN None ELSE Some(Converted(c.Responses.v)),
                             !.SecuritySchemes = IF Size(c.SecuritySchemes) = 0 THEN None ELSE Some(Converted(c.SecuritySchemes.v))]),
      Tags |-> data.tags]
\* convertToOpenAPI3(data, version)
convertToOpenAPI3(data, version) ==
  IF HasPrefix3(version.Version) THEN LoadFromData(data)
  ELSE IF version.IsYAML /\ ~YamlUnmarshal(data).ok THEN Err("ParseFailed", File(""))
  ELSE IF ~data.wellformed THEN Err("ParseFailed", File(""))
  ELSE Ok(ToV3(data))

\* mutant: every 2xx status is taken as success
readDataFromPath2xx(path) ==
  IF HasPrefix(path, "http://") \/ HasPrefix(path, "https://")
  THEN LET resp == HttpGet(path)
       IN IF resp.err THEN Err("FetchFailed", path)
          ELSE IF resp.status < StatusOK \/ resp.status >= StatusOK + 100 THEN Err("FetchFailed", path)
          ELSE IF resp.bodyErr THEN Err("FetchFailed", path)
          ELSE Ok(resp.body)
  ELSE ReadFile(path)
\* readDataFromPath(path)
readDataFromPath(path) ==
  IF HasPrefix(path, "http://") \/ HasPrefix(path, "https://")
  THEN LET resp == HttpGet(path)
       IN IF resp.err THEN Err("FetchFailed", path)
          ELSE IF resp.status # StatusOK THEN Err("FetchFailed", path)
          ELSE IF resp.bodyErr THEN Err("FetchFailed", path)
          ELSE Ok(resp.body)
  ELSE ReadFile(path)

\* the canonical version string processSwaggerFile sets
CanonicalVersion == V301
\* the servers slice processSwaggerFile builds from the configuration
ConfiguredServers(cfg) == Some([i \in 1..Size(cfg.Servers) |-> [URL |-> cfg.Servers.v[i].URL, Description |-> cfg.Servers.v[i].Description]])
\* mutant: the configured servers replace only an absent server list
processSwaggerFileKeepDeclared(cfg, filePath) ==
  LET data == readDataFromPath(filePath)
      version == detectSwaggerVersion(data.v)
      doc == convertToOpenAPI3(data.v, version.v)
  IN IF ~data.ok THEN Err(data.err, filePath)
     ELSE IF ~version.ok THEN Err(version.err, filePath)
     ELSE IF ~doc.ok THEN Err(doc.err, filePath)
     ELSE Ok([doc.v EXCEPT !.OpenAPI = CanonicalVersion,
                           !.Servers = IF doc.v.Servers.nil THEN ConfiguredServers(cfg) ELSE doc.v.Servers])
\* processSwaggerFile(filePath) of a Merger with configuration cfg
processSwaggerFile(cfg, filePath) ==
  LET data == readDataFromPath(filePath)
      version == detectSwaggerVersion(data.v)
      doc == convertToOpenAPI3(data.v, version.v)
  IN IF ~data.ok THEN Err(data.err, filePath)
     ELSE IF ~version.ok THEN Err(version.err, filePath)
     ELSE IF ~doc.ok THEN Err(doc.err, filePath)
     ELSE Ok([doc.v EXCEPT !.OpenAPI = CanonicalVersion, !.Servers = ConfiguredServers(cfg)])

\* mutant: the security schemes are merged like the other kinds
MergedKindsAll == {"Schemas", "Responses", "Parameters", "RequestBodies", "Headers", "SecuritySchemes"}
\* the component kinds mergeOpenAPI3 merges
MergedKinds == {"Schemas", "Responses", "Parameters", "RequestBodies", "Headers"}
\* mutant: the accumulator's PathItem is kept on a key collision
MergePathsFirstWins(mp, dp) == IF dp.nil THEN mp ELSE Some(Overlay(dp.v, IF mp.nil THEN <<>> ELSE mp.v))
\* merged.Paths after `if doc.Paths != nil { ... merged.Paths.Set(path, item) }`
MergePaths(mp, dp) == IF dp.nil THEN mp ELSE Some(Overlay(IF mp.nil THEN <<>> ELSE mp.v, dp.v))
\* one accumulator mapping after `if merged.X == nil { merged.X = {} }`
InitKind(m) == IF m.nil THEN Some(<<>>) ELSE m
\* merged.Components after the five initialisations
InitComponents(mc) == [k \in DOMAIN mc |-> IF k \in MergedKinds THEN InitKind(mc[k]) ELSE mc[k]]
\* mutant: the accumulator's definition is kept on a name collision
MergeKindFirstWins(m, d) == IF d.nil THEN m ELSE Some(Overlay(d.v, m.v))
\* one accumulator mapping after `if doc.X != nil { for k, v := range doc.X { merged.X[k] = v } }`
MergeKind(m, d) == IF d.nil THEN m ELSE Some(Overlay(m.v, d.v))
\* merged.Components after the five copy loops
MergeComponents(mc, dc) == [k \in DOMAIN mc |-> IF k \in MergedKinds THEN MergeKind(mc[k], dc[k]) ELSE mc[k]]
\* mutant: a tag already in the accumulator is not appended again
MergeTagsDedup(mt, dt) == IF dt.nil \/ Len(dt.v) = 0 THEN mt
                          ELSE Some(mt.v \o SelectSeq(dt.v, LAMBDA t : \A i \in 1..Len(mt.v) : mt.v[i] # t))
\* merged.Tags after `if doc.Tags != nil { merged.Tags = append(merged.Tags, doc.Tags...) }`
\* (append of no elements returns its first argument, nil included)
MergeTags(mt, dt) == IF dt.nil \/ Len(dt.v) = 0 THEN mt ELSE Some(mt.v \o dt.v)
\* one iteration of the loop of mergeOpenAPI3: the accumulator after it,
\* and whether it ended in a nil pointer dereference
MergeIter(merged, doc) ==
  LET m1 == [merged EXCEPT !.Paths = MergePaths(merged.Paths, doc.Paths)]
  IN IF m1.Components.nil THEN [panic |-> TRUE, v |-> m1]
     ELSE LET m2 == [m1 EXCEPT !.Components = Some(InitComponents(m1.Components.v))]
          IN IF doc.Components.nil THEN [panic |-> TRUE, v |-> m2]
             ELSE [panic |-> FALSE,
                   v |-> [m2 EXCEPT !.Components = Some(MergeComponents(m2.Components.v, doc.Components.v)),
                                    !.Tags = MergeTags(m2.Tags, doc.Tags)]]
\* mutant: the fold stores its result into the document it reads
StoreMergedIntoDoc(ds, i, v) == [ds EXCEPT ![i] = v]
\* `merged := docs[0]` is the pointer docs[0]: what the fold writes to
\* merged is seen in the first document, and in no other
StoreMerged(ds, i, v) == [ds EXCEPT ![1] = v]
\* mutant: Merge does not check the input path list
MergeValidateNoInputCheck(cfg) == IF cfg.OutputPath = "" THEN "NoOutputPath" ELSE ""
\* mutant: Merge does not check the output path
MergeValidateNoOutputCheck(cfg) == IF Len(cfg.InputPaths) = 0 THEN "NoInputPaths" ELSE ""
\* the validations at the head of Merge: the error returned, "" when none
MergeValidate(cfg) == IF Len(cfg.InputPaths) = 0 THEN "NoInputPaths"
                      ELSE IF cfg.OutputPath = "" THEN "NoOutputPath" ELSE ""
\* mutant: GetStats validates like Merge and asks for an output path
GetStatsValidateNeedsOutput(cfg) == IF Len(cfg.InputPaths) = 0 THEN "NoInputPaths"
                                    ELSE IF cfg.OutputPath = "" THEN "NoOutputPath" ELSE ""
\* the validation at the head of GetStats: the error returned, "" when none
GetStatsValidate(cfg) == IF Len(cfg.InputPaths) = 0 THEN "NoInputPaths" ELSE ""
\* the length check at the head of mergeOpenAPI3
MergeLenCheck(ds) == IF Len(ds) = 0 THEN "EmptyInput" ELSE ""
\* mutant: the loop starts at the accumulator itself (i := 0)
LoopStartZero == 2 - 1
\* `for i := 1; ...` of mergeOpenAPI3, as an index into a 1-based sequence
LoopStart == 2
\* mutant: the schema count is taken from the paths
StatsOfSwapped(cfg, merged) == [total_files |-> Len(cfg.InputPaths), total_paths |-> Size(merged.Paths),
                                total_schemas |-> Size(merged.Paths), total_tags |-> Size(merged.Tags)]
\* the map GetStats builds from the merged document
StatsOf(cfg, merged) == [total_files |-> Len(cfg.InputPaths), total_paths |-> Size(merged.Paths),
                         total_schemas |-> Size(merged.Components.v.Schemas), total_tags |-> Size(merged.Tags)]

\* ---------------------------------------------------------------------
\* cmd/swagger-merger main: the scan of the --input tokens
\* ---------------------------------------------------------------------
\* the files of a directory whose base name matches the pattern
Matching(files) == SelectSeq(files, LAMBDA f : f.yaml)
\* the paths of a sequence of directory entries
PathsOf(files) == [i \in 1..Len(files) |-> files[i].path]
\* what one token adds to allInputPaths
ScanToken(tok) ==
  IF tok.scheme = "" /\ tok.rest = "" THEN <<>>
  ELSE IF Stat(tok).err THEN <<>>
  ELSE IF Stat(tok).isDir THEN PathsOf(Matching(DirFiles[tok.rest]))
  ELSE << tok >>
\* allInputPaths after the loop over inputPathList
RECURSIVE ScanInputs(_)
ScanInputs(toks) == IF Len(toks) = 0 THEN <<>> ELSE ScanToken(Head(toks)) \o ScanInputs(Tail(toks))
\* serverConfigs after `if len(serverConfigs) == 0 { serverConfigs = DefaultServers() }`
MainServers(parsed) == IF Size(parsed) = 0 THEN Some(DefaultServers) ELSE parsed

\* ---------------------------------------------------------------------
\* Inputs of a run
\* ---------------------------------------------------------------------
\* the zero Config of `&Merger{}`
ZeroConfig == [InputPaths |-> <<>>, OutputPath |-> "", Servers |-> None]
\* locators a library caller puts into Config.InputPaths
ApiLocs == { File("a.yaml"), File("b.json"), File("c.yaml"), File("d.json"), File("e.json"),
             File("missing.yaml"), File("nokey.yaml"), File("broken.yaml"),
             Url("https://", "h/c.yaml"), Url("https://", "h/404") }
\* tokens of the --input flag
CliTokens == { File("a.yaml"), File("b.json"), File("d.json"), File(""), File("docs"),
               File("missing.yaml"), File("nokey.yaml"), Url("https://", "h/c.yaml") }
\* every locator, for readDataFromPath alone
AllLocs == ApiLocs \cup CliTokens \cup { File("f.yaml"), File("text.txt"), File("docs/a.yaml"),
                                         Url("http://", "h/c.yaml"), Url("https://", "h/created.json"),
                                         Url("http://", "h/down"), Url("ftp://", "h/c.yaml"),
                                         Url("https://", "h/trunc.yaml") }
\* every raw document, for detectSwaggerVersion alone
AllRaws == { RawA, RawB, RawC, RawD, RawE, RawF, RawNoKey, RawText, RawBroken }
\* a document built in memory with an empty components object
DocEmptyComps == [OpenAPI |-> V301, Info |-> "API 1", Servers |-> None, Paths |-> None, Components |-> Some(NoComps), Tags |-> None]
\* documents handed to mergeOpenAPI3 directly
DocPool == { processSwaggerFile(ZeroConfig, File(n)).v : n \in {"a.yaml", "b.json", "c.yaml", "d.json", "e.json"} } \cup { DocEmptyComps }
\* sequences over S of length at most n
SeqsUpTo(S, n) == UNION { [1..k -> S] : k \in 0..n }
\* output paths
OutputChoices == { "", "out.yaml" }
\* arguments of a run that uses none
NoArgs == [input |-> <<>>, output |-> "", servers |-> None, stats |-> FALSE, raw |-> RawText, path |-> File(""), docs |-> <<>>]
\* no value returned yet
NoRet == [op |-> "", ok |-> TRUE, v |-> <<>>, err |-> "", at |-> File("")]
\* no statistics returned yet
NoStats == [total_files |-> -1, total_paths |-> -1, total_schemas |-> -1, total_tags |-> -1]

VARIABLES mode, pc, op, args, config, idx, docs, reads, outFile, writes, ret, stats, calls, exitCode

vars == << mode, pc, op, args, config, idx, docs, reads, outFile, writes, ret, stats, calls, exitCode >>

Init ==
  /\ mode \in {"api", "cli", "unit_merge", "unit_detect", "unit_read"}
  /\ args \in CASE mode = "api" -> { [NoArgs EXCEPT !.input = i, !.output = o, !.servers = s] :
                                       i \in SeqsUpTo(ApiLocs, MaxInputs), o \in OutputChoices, s \in ServerChoices }
                [] mode = "cli" -> { [NoArgs EXCEPT !.input = i, !.output = o, !.servers = s, !.stats = st] :
                                       i \in SeqsUpTo(CliTokens, MaxInputs), o \in OutputChoices,
                                       s \in {None, Some(CustomServers)}, st \in BOOLEAN }
                [] mode = "unit_merge" -> { [NoArgs EXCEPT !.docs = d] : d \in SeqsUpTo(DocPool, MaxDocs) }
                [] mode = "unit_detect" -> { [NoArgs EXCEPT !.raw = r] : r \in AllRaws }
                [] OTHER -> { [NoArgs EXCEPT !.path = p] : p \in AllLocs }
  /\ pc = "start"
  /\ op = ""
  /\ config = ZeroConfig
  /\ idx = 0
  /\ docs = <<>>
  /\ reads = <<>>
  /\ outFile = None
  /\ writes = 0
  /\ ret = NoRet
  /\ stats = NoStats
  /\ calls = 0
  /\ exitCode = -1

\* where control goes when the running operation returns
AfterReturn == CASE mode = "api" -> "idle" [] mode = "cli" -> "main_ret" [] OTHER -> "done"
\* the running operation returns the error r
ReturnErr(r) == /\ ret' = [op |-> op, ok |-> FALSE, v |-> <<>>, err |-> r.err, at |-> r.at]
                /\ pc' = AfterReturn

\* merger.New(config) called by a library user
ApiNew ==
  /\ mode = "api" /\ pc = "start"
  /\ config' = New([InputPaths |-> args.input, OutputPath |-> args.output, Servers |-> args.servers])
  /\ pc' = "idle"
  /\ UNCHANGED << mode, op, args, idx, docs, reads, outFile, writes, ret, stats, calls, exitCode >>

\* main, from flag validation to the second merger.New
MainScan ==
  /\ mode = "cli" /\ pc = "start"
  /\ IF Len(args.input) = 0 \/ args.output = "" \/ Len(ScanInputs(args.input)) = 0
     THEN /\ pc' = "exit" /\ exitCode' = 1 /\ UNCHANGED config
     ELSE /\ config' = New([InputPaths |-> ScanInputs(args.input), OutputPath |-> args.output, Servers |-> MainServers(args.servers)])
          /\ pc' = "idle" /\ UNCHANGED exitCode
  /\ UNCHANGED << mode, op, args, idx, docs, reads, outFile, writes, ret, stats, calls >>

\* Merge(): the two validations, then the loop over the input paths starts
CallMerge ==
  /\ pc = "idle"
  /\ (mode = "api" /\ calls < MaxCalls) \/ (mode = "cli" /\ calls = 0)
  /\ op' = "Merge" /\ calls' = calls + 1
  /\ IF MergeValidate(config) # ""
     THEN /\ ret' = [op |-> "Merge", ok |-> FALSE, v |-> <<>>, err |-> MergeValidate(config), at |-> File("")]
          /\ pc' = AfterReturn /\ UNCHANGED << idx, docs >>
     ELSE /\ pc' = IF Len(config.InputPaths) = 0 THEN "merge" ELSE "process"
          /\ idx' = 1 /\ docs' = <<>> /\ UNCHANGED ret
  /\ UNCHANGED << mode, args, config, reads, outFile, writes, stats, exitCode >>

\* GetStats(): the validation, then the loop over the input paths starts
CallGetStats ==
  /\ \/ mode = "api" /\ pc = "idle" /\ calls < MaxCalls
     \/ mode = "cli" /\ pc = "main_ret" /\ op = "Merge" /\ ret.ok /\ args.stats
  /\ op' = "GetStats" /\ calls' = calls + 1
  /\ IF GetStatsValidate(config) # ""
     THEN /\ ret' = [op |-> "GetStats", ok |-> FALSE, v |-> <<>>, err |-> GetStatsValidate(config), at |-> File("")]
          /\ pc' = AfterReturn /\ UNCHANGED << idx, docs >>
     ELSE /\ pc' = IF Len(config.InputPaths) = 0 THEN "merge" ELSE "process"
          /\ idx' = 1 /\ docs' = <<>> /\ UNCHANGED ret
  /\ UNCHANGED << mode, args, config, reads, outFile, writes, stats, exitCode >>

\* mutant: the input paths are visited from the last to the first
InputAtReversed(cfg, i) == cfg.InputPaths[Len(cfg.InputPaths) - i + 1]
\* filePath in iteration i of `for _, filePath := range m.config.InputPaths`
InputAt(cfg, i) == cfg.InputPaths[i]
\* one iteration of `for _, filePath := range m.config.InputPaths`
ProcessFile ==
  /\ pc = "process"
  /\ LET filePath == InputAt(config, idx)
         r == processSwaggerFile(config, filePath)
     IN /\ reads' = Append(reads, filePath)
        /\ IF ~r.ok
           THEN ReturnErr(r) /\ UNCHANGED << idx, docs >>
           ELSE /\ docs' = Append(docs, r.v)
                /\ idx' = idx + 1
                /\ pc' = IF idx = Len(config.InputPaths) THEN "merge" ELSE "process"
                /\ UNCHANGED ret
  /\ UNCHANGED << mode, op, args, config, outFile, writes, stats, calls, exitCode >>

\* a test calls mergeOpenAPI3 on documents it built
UnitMerge ==
  /\ mode = "unit_merge" /\ pc = "start"
  /\ docs' = args.docs /\ op' = "mergeOpenAPI3" /\ pc' = "merge"
  /\ UNCHANGED << mode, args, config, idx, reads, outFile, writes, ret, stats, calls, exitCode >>

\* mergeOpenAPI3: the length check and `merged := docs[0]`
MergeEnter ==
  /\ pc = "merge"
  /\ IF MergeLenCheck(docs) # ""
     THEN ReturnErr(Err(MergeLenCheck(docs), File(""))) /\ UNCHANGED idx
     ELSE pc' = "fold" /\ idx' = LoopStart /\ UNCHANGED ret
  /\ UNCHANGED << mode, op, args, config, docs, reads, outFile, writes, stats, calls, exitCode >>

\* mergeOpenAPI3: one iteration of `for i := 1; i < len(docs); i++`
MergeFold ==
  /\ pc = "fold" /\ idx <= Len(docs) /\ Len(docs) > 0
  /\ LET r == MergeIter(docs[1], docs[idx])
     IN /\ docs' = StoreMerged(docs, idx, r.v)
        /\ pc' = IF r.panic THEN "panic" ELSE "fold"
        /\ idx' = IF r.panic THEN idx ELSE idx + 1
  /\ UNCHANGED << mode, op, args, config, reads, outFile, writes, ret, stats, calls, exitCode >>

\* mergeOpenAPI3 returns merged (docs[0]) to its caller
MergeReturn ==
  /\ pc = "fold" /\ idx > Len(docs)
  /\ Len(docs) > 0
  /\ IF op = "mergeOpenAPI3"
     THEN /\ ret' = [op |-> op, ok |-> TRUE, v |-> docs[1], err |-> "", at |-> File("")]
          /\ pc' = "done"
     ELSE /\ pc' = IF op = "Merge" THEN "write" ELSE "stats"
          /\ UNCHANGED ret
  /\ UNCHANGED << mode, op, args, config, idx, docs, reads, outFile, writes, stats, calls, exitCode >>

\* Merge: yaml.Marshal(merged) and os.WriteFile; the write can fail
WriteOutput ==
  /\ pc = "write"
  /\ \E writable \in BOOLEAN :
       IF writable
       THEN /\ outFile' = Some(docs[1]) /\ writes' = writes + 1
            /\ ret' = [op |-> "Merge", ok |-> TRUE, v |-> <<>>, err |-> "", at |-> File("")]
            /\ pc' = AfterReturn
       ELSE ReturnErr(Err("WriteFailed", File(config.OutputPath))) /\ UNCHANGED << outFile, writes >>
  /\ UNCHANGED << mode, op, args, config, idx, docs, reads, stats, calls, exitCode >>

\* GetStats: the stats map; merged.Components may be nil
ComputeStats ==
  /\ pc = "stats"
  /\ IF docs[1].Components.nil
     THEN pc' = "panic" /\ UNCHANGED << ret, stats >>
     ELSE /\ stats' = StatsOf(config, docs[1])
          /\ ret' = [op |-> "GetStats", ok |-> TRUE, v |-> <<>>, err |-> "", at |-> File("")]
          /\ pc' = AfterReturn
  /\ UNCHANGED << mode, op, args, config, idx, docs, reads, outFile, writes, calls, exitCode >>

\* main after Merge or GetStats returned: log.Fatalf on a Merge error
MainExit ==
  /\ mode = "cli" /\ pc = "main_ret"
  /\ ~(op = "Merge" /\ ret.ok /\ args.stats)
  /\ pc' = "exit"
  /\ exitCode' = IF op = "Merge" /\ ~ret.ok THEN 1 ELSE 0
  /\ UNCHANGED << mode, op, args, config, idx, docs, reads, outFile, writes, ret, stats, calls >>

\* a test calls detectSwaggerVersion on bytes
UnitDetect ==
  /\ mode = "unit_detect" /\ pc = "start"
  /\ LET r == detectSwaggerVersion(args.raw)
     IN ret' = [op |-> "detectSwaggerVersion", ok |-> r.ok, v |-> r.v, err |-> r.err, at |-> r.at]
  /\ op' = "detectSwaggerVersion" /\ pc' = "done"
  /\ UNCHANGED << mode, args, config, idx, docs, reads, outFile, writes, stats, calls, exitCode >>

\* a test calls readDataFromPath on a locator
UnitRead ==
  /\ mode = "unit_read" /\ pc = "start"
  /\ LET r == readDataFromPath(args.path)
     IN ret' = [op |-> "readDataFromPath", ok |-> r.ok, v |-> r.v, err |-> r.err, at |-> r.at]
  /\ op' = "readDataFromPath" /\ pc' = "done"
  /\ reads' = Append(reads, args.path)
  /\ UNCHANGED << mode, args, config, idx, docs, outFile, writes, stats, calls, exitCode >>

Next == \/ ApiNew \/ MainScan \/ CallMerge \/ CallGetStats \/ ProcessFile \/ UnitMerge
        \/ MergeEnter \/ MergeFold \/ MergeReturn \/ WriteOutput \/ ComputeStats \/ MainExit
        \/ UnitDetect \/ UnitRead

Spec == Init /\ [][Next]_vars

\* ---------------------------------------------------------------------
\* Properties
\* ---------------------------------------------------------------------
\* the documents processSwaggerFile yields for the configured inputs
PipelineDocs == [i \in 1..Len(config.InputPaths) |-> processSwaggerFile(config, config.InputPaths[i]).v]
\* the documents as they entered mergeOpenAPI3, before the fold touched them
OrigDocs == IF mode = "unit_merge" THEN args.docs ELSE PipelineDocs
\* mergeOpenAPI3 has returned a document (docs[1]) and nothing ran since
Merged == \/ pc \in {"write", "stats"}
          \/ op = "mergeOpenAPI3" /\ pc = "done" /\ ret.ok
\* the indices of the documents of D whose mapping f declares key k
Declaring(D, f(_), k) == { i \in 1..Len(D) : k \in Keys(f(D[i])) }
\* every key of any document of D under f
AllKeys(D, f(_)) == UNION { Keys(f(D[i])) : i \in 1..Len(D) }
\* the mapping m holds exactly the keys of D under f, each with the
\* value of the last document declaring it
LastWins(m, D, f(_)) == /\ Keys(m) = AllKeys(D, f)
                        /\ \A k \in AllKeys(D, f) : m.v[k] = f(D[MaxOf(Declaring(D, f, k))]).v[k]
\* the sum of the sizes of the mappings of D under f
RECURSIVE SumSizes(_, _, _)
SumSizes(D, f(_), n) == IF n = 0 THEN 0 ELSE Size(f(D[n])) + SumSizes(D, f, n - 1)
\* no key is declared by two documents of D under f
Disjoint(D, f(_)) == \A i, j \in 1..Len(D) : i # j => Keys(f(D[i])) \cap Keys(f(D[j])) = {}
\* the paths mapping of a document
PathsField(d) == d.Paths
\* a component mapping of a document (absent when it has no components)
KindField(d, kind) == IF d.Components.nil THEN None ELSE d.Components.v[kind]
\* the tags of a document as a sequence (a nil slice is empty)
TagSeq(d) == IF d.Tags.nil THEN <<>> ELSE d.Tags.v
\* the concatenation of the tag sequences of the first n documents of D
RECURSIVE ConcatTags(_, _)
ConcatTags(D, n) == IF n = 0 THEN <<>> ELSE ConcatTags(D, n - 1) \o TagSeq(D[n])

\* C1: whenever mergeOpenAPI3 returns a document, its paths mapping holds
\* exactly the distinct path keys of all inputs, each with the PathItem of
\* the last document declaring it; its size is the number of distinct keys,
\* and the sum of the input sizes when the keys are disjoint.
C1_PathsLastWins ==
  Merged => /\ LastWins(docs[1].Paths, OrigDocs, PathsField)
            /\ Size(docs[1].Paths) = Cardinality(AllKeys(OrigDocs, PathsField))
            /\ Disjoint(OrigDocs, PathsField) => Size(docs[1].Paths) = SumSizes(OrigDocs, PathsField, Len(OrigDocs))
\* three documents merged, the first and the third declaring one path
\* with different PathItems, a second one declaring another path
C1_Witness ==
  /\ Merged /\ Len(docs) = 3
  /\ \E k \in Keys(OrigDocs[1].Paths) \cap Keys(OrigDocs[3].Paths) :
       /\ OrigDocs[1].Paths.v[k] # OrigDocs[3].Paths.v[k]
       /\ docs[1].Paths.v[k] = OrigDocs[3].Paths.v[k]
  /\ Keys(OrigDocs[2].Paths) \ Keys(OrigDocs[1].Paths) # {}

\* C2: whenever mergeOpenAPI3 returns a document, each of the five
\* component mappings holds every name declared by any input with the
\* definition of the last document declaring it, and after a merge of two
\* or more documents all five accumulator mappings exist.
C2_ComponentsLastWins ==
  Merged => /\ \A kind \in MergedKinds :
                 LastWins(KindField(docs[1], kind), OrigDocs, LAMBDA d : KindField(d, kind))
            /\ Len(docs) >= 2 => /\ ~docs[1].Components.nil
                                 /\ \A kind \in MergedKinds : ~docs[1].Components.v[kind].nil
\* a merge where the accumulator had no responses mapping, a later
\* document declared one, and a schema name collided
C2_Witness ==
  /\ Merged /\ Len(docs) >= 2
  /\ KindField(OrigDocs[1], "Responses").nil
  /\ Size(KindField(docs[1], "Responses")) > 0
  /\ KindField(OrigDocs[1], "Parameters").nil /\ \A i \in 1..Len(docs) : Size(KindField(OrigDocs[i], "Parameters")) = 0
  /\ \E k \in Keys(KindField(OrigDocs[1], "Schemas")) \cap Keys(KindField(OrigDocs[2], "Schemas")) :
       KindField(OrigDocs[1], "Schemas").v[k] # KindField(docs[1], "Schemas").v[k]

\* C3: whenever mergeOpenAPI3 returns a document, its tag sequence is the
\* concatenation, in input order, of the tag sequences of all inputs;
\* nothing is removed or deduplicated.
C3_TagsConcatenated ==
  Merged => TagSeq(docs[1]) = ConcatTags(OrigDocs, Len(OrigDocs))
\* [A,B] merged with [B,C] gives [A,B,B,C]
C3_Witness ==
  /\ Merged /\ Len(docs) = 2
  /\ TagSeq(OrigDocs[1]) = <<"A", "B">> /\ TagSeq(OrigDocs[2]) = <<"B", "C">>
  /\ TagSeq(docs[1]) = <<"A", "B", "B", "C">>

\* C4: every document processSwaggerFile returned to Merge or GetStats has
\* openapiVersion "3.0.1" and a servers sequence equal, element by element
\* and in order, to the configured server list.
C4_Normalized ==
  mode \in {"api", "cli"} =>
    \A i \in 1..Len(docs) :
      /\ docs[i].OpenAPI = << "3", ".", "0", ".", "1" >>
      /\ ~docs[i].Servers.nil
      /\ Len(docs[i].Servers.v) = Size(config.Servers)
      /\ \A j \in 1..Len(docs[i].Servers.v) : docs[i].Servers.v[j] = config.Servers.v[j]
\* an OpenAPI 3 source declaring version 3.0.0 and its own servers and a
\* Swagger 2 source declaring servers, both normalized under a custom list
C4_Witness ==
  /\ mode = "api" /\ pc = "merge" /\ Len(docs) = 2
  /\ config.Servers = Some(CustomServers)
  /\ \E i, j \in 1..2 :
       LET di == readDataFromPath(config.InputPaths[i]).v
           dj == readDataFromPath(config.InputPaths[j]).v
       IN /\ ~di.openapi.nil /\ di.openapi.v = V300 /\ di.servers = Some(OrigServers)
          /\ ~dj.swagger.nil /\ dj.servers = Some(OrigServers)

\* C5: mergeOpenAPI3 on an empty sequence returns EmptyInput and no
\* document; Merge and GetStats on a Merger without input paths return an
\* error without reading any input or writing any output.
C5_EmptyInputIsError ==
  /\ (mode = "unit_merge" /\ Len(args.docs) = 0 /\ pc \notin {"start", "merge"}) =>
        /\ pc = "done" /\ ~ret.ok /\ ret.err = "EmptyInput" /\ ret.v = <<>>
  /\ (mode = "api" /\ pc # "start" /\ Len(config.InputPaths) = 0) =>
        /\ pc = "idle" /\ reads = <<>> /\ writes = 0 /\ outFile = None /\ docs = <<>>
        /\ calls > 0 => ~ret.ok /\ ret.err = "NoInputPaths"
\* GetStats and Merge have both been called on a Merger without input paths
C5_Witness ==
  /\ mode = "api" /\ Len(config.InputPaths) = 0 /\ config.OutputPath # ""
  /\ calls = 2 /\ op = "GetStats" /\ ~ret.ok

\* C6: merging exactly one document succeeds and returns that document
\* with every field as it was before the merge.
C6_SingleDocumentUnchanged ==
  /\ (Merged /\ Len(docs) = 1) => docs[1] = OrigDocs[1]
  /\ (mode = "unit_merge" /\ Len(args.docs) = 1 /\ pc \notin {"start", "merge", "fold"}) =>
        pc = "done" /\ ret.ok /\ ret.v = args.docs[1]
\* a single document with a components object whose five mappings are
\* absent has been merged
C6_Witness ==
  /\ mode = "unit_merge" /\ pc = "done" /\ ret.ok /\ Len(args.docs) = 1
  /\ ~ret.v.Components.nil /\ ret.v.Components.v.Schemas.nil

\* whether one supplied input can be read, detected and converted
RECURSIVE AllOk(_)
AllOk(paths) == Len(paths) = 0 \/ (processSwaggerFile(config, Head(paths)).ok /\ AllOk(Tail(paths)))
\* a supplied --input token: the empty token is no input, a directory
\* stands for its matching files
InputOk(tok) == IF tok.scheme = "" /\ tok.rest = "" THEN TRUE
                ELSE IF tok.scheme = "" /\ tok.rest \in DOMAIN DirFiles THEN AllOk(PathsOf(Matching(DirFiles[tok.rest])))
                ELSE processSwaggerFile(config, tok).ok
\* C7: the output file is written only in runs where every supplied input
\* was processed successfully; no failing input is skipped while the run
\* goes on to write the output.
C7_AllOrNothing ==
  (mode \in {"api", "cli"} /\ writes > 0) => \A i \in 1..Len(args.input) : InputOk(args.input[i])

\* C8: New substitutes the four default servers when the given list is
\* empty or unset, and keeps a non-empty list as given.
C8_DefaultServersWhenEmpty ==
  (mode = "api" /\ pc # "start") =>
     config.Servers.v = IF Size(args.servers) = 0 THEN DefaultServers ELSE args.servers.v

\* C9: detect reports the encoding of the bytes: a JSON object with a
\* swagger or openapi key yields encoding JSON (IsYAML false) and the
\* key's value as version, a block YAML document yields encoding YAML.
C9_EncodingReported ==
  (mode = "unit_detect" /\ pc = "done" /\ (~args.raw.swagger.nil \/ ~args.raw.openapi.nil)) =>
     /\ args.raw.syntax \in {"json", "jsondup"} =>
          /\ ret.ok /\ ~ret.v.IsYAML
          /\ ret.v.Version = IF ~args.raw.swagger.nil THEN args.raw.swagger.v ELSE args.raw.openapi.v
     /\ args.raw.syntax = "yaml" => ret.ok /\ ret.v.IsYAML

\* GetStats has returned its statistics and nothing ran since
StatsReturned == op = "GetStats" /\ ret.ok /\ pc = AfterReturn
\* C10: the statistics GetStats returns are the sizes of the merged
\* collections: distinct path keys, distinct schema names, the length of
\* the concatenated tags, and the number of input documents.
C10_StatsOfMergedState ==
  StatsReturned =>
     /\ stats.total_paths = Cardinality(AllKeys(PipelineDocs, PathsField))
     /\ stats.total_schemas = Cardinality(AllKeys(PipelineDocs, LAMBDA d : KindField(d, "Schemas")))
     /\ stats.total_tags = Len(ConcatTags(PipelineDocs, Len(PipelineDocs)))
     /\ stats.total_files = Len(PipelineDocs)
\* statistics of two inputs sharing a path key and a schema name: the
\* counts are below the per-input sums
C10_Witness ==
  /\ StatsReturned /\ Len(PipelineDocs) = 2
  /\ stats.total_paths < SumSizes(PipelineDocs, PathsField, 2)
  /\ stats.total_schemas < SumSizes(PipelineDocs, LAMBDA d : KindField(d, "Schemas"), 2)
  /\ stats.total_tags > 0

\* the last n entries of a sequence
LastN(s, n) == SubSeq(s, Len(s) - n + 1, Len(s))
\* C11: GetStats re-runs the pipeline over the configured inputs: whenever
\* every input can be processed it returns, with or without an output
\* path and whatever was called before, the counts of the documents
\* processed afresh (it has just read every input again, in order), which
\* are the counts of the document Merge wrote; and only Merge ever writes.
C11_StatsRerunsPipeline ==
  /\ [](( /\ mode \in {"api", "cli"} /\ op = "GetStats" /\ pc = AfterReturn
          /\ Len(config.InputPaths) > 0 /\ AllOk(config.InputPaths) ) =>
          /\ ret.ok
          /\ stats = [total_files |-> Len(config.InputPaths),
                      total_paths |-> Cardinality(AllKeys(PipelineDocs, PathsField)),
                      total_schemas |-> Cardinality(AllKeys(PipelineDocs, LAMBDA d : KindField(d, "Schemas"))),
                      total_tags |-> Len(ConcatTags(PipelineDocs, Len(PipelineDocs)))]
          /\ Len(reads) >= Len(config.InputPaths)
          /\ LastN(reads, Len(config.InputPaths)) = config.InputPaths
          /\ ~outFile.nil => /\ stats.total_paths = Size(outFile.v.Paths)
                             /\ stats.total_schemas = Size(KindField(outFile.v, "Schemas"))
                             /\ stats.total_tags = Len(TagSeq(outFile.v)))
  /\ [][(writes' # writes \/ outFile' # outFile) => (op = "Merge" /\ op' = "Merge")]_vars
\* GetStats returned its counts after Merge had written the merged
\* document of two inputs
C11_Witness ==
  /\ mode = "api" /\ op = "GetStats" /\ pc = "idle" /\ ret.ok /\ calls = 2
  /\ ~outFile.nil /\ writes = 1 /\ Len(config.InputPaths) = 2
  /\ stats.total_paths = Size(outFile.v.Paths) /\ stats.total_paths > 0

\* readDataFromPath has returned for the locator args.path
ReadDone == mode = "unit_read" /\ pc = "done"
\* the locator has scheme http or https
IsHttp(path) == path.scheme \in {"http://", "https://"}
\* what the server answers for the locator
Answer(path) == IF path.rest \in DOMAIN HttpData THEN HttpData[path.rest]
                ELSE [err |-> TRUE, status |-> 0, body |-> RawText, bodyErr |-> FALSE]
\* the transport fails: no response, or the body cannot be read
TransportFails(path) == Answer(path).err \/ Answer(path).bodyErr
\* reading a locator that is not http(s): the file's bytes, or ReadFailed
FileReadAsClaimed ==
  (ReadDone /\ ~IsHttp(args.path)) =>
     IF args.path.scheme = "" /\ args.path.rest \in DOMAIN FileData
     THEN ret.ok /\ ret.v = FileData[args.path.rest]
     ELSE ~ret.ok /\ ret.err = "ReadFailed" /\ ret.at = args.path
\* C12 as stated: one GET; the body is returned when the status is 2xx,
\* FetchFailed naming the locator when the status is not 2xx or the
\* transport fails; other locators are read as files.
C12_Body_On_Any_2xx ==
  /\ FileReadAsClaimed
  /\ ReadDone => Len(reads) = 1
  /\ (ReadDone /\ IsHttp(args.path)) =>
        IF ~TransportFails(args.path) /\ Answer(args.path).status \in 200..299
        THEN ret.ok /\ ret.v = Answer(args.path).body
        ELSE ~ret.ok /\ ret.err = "FetchFailed" /\ ret.at = args.path
\* C12 (amended): one GET; the body is returned only when the status is
\* exactly 200; any other status, other 2xx included, and a failing
\* transport give FetchFailed naming the locator; other locators are read
\* as files.
C12_Body_Only_On_200 ==
  /\ FileReadAsClaimed
  /\ ReadDone => Len(reads) = 1
  /\ (ReadDone /\ IsHttp(args.path)) =>
        IF ~TransportFails(args.path) /\ Answer(args.path).status = 200
        THEN ret.ok /\ ret.v = Answer(args.path).body
        ELSE ~ret.ok /\ ret.err = "FetchFailed" /\ ret.at = args.path
\* a URL answered with status 201 and a readable body was read and failed
C12_Witness ==
  /\ ReadDone /\ IsHttp(args.path) /\ ~TransportFails(args.path)
  /\ Answer(args.path).status = 201
  /\ ~ret.ok /\ ret.err = "FetchFailed"

\* the Merger has input paths and no output path
NoOutputPath == mode = "api" /\ pc # "start" /\ Len(config.InputPaths) > 0 /\ config.OutputPath = ""
\* C13: Merge on a Merger with input paths and an empty output path
\* returns an error in the step that calls it: no input is read, no file
\* is written, and such a Merger never writes.
C13_EmptyOutputPathIsError ==
  /\ [](NoOutputPath => (writes = 0 /\ outFile = None))
  /\ [][(NoOutputPath /\ op' = "Merge" /\ calls' = calls + 1) =>
          /\ pc' = "idle" /\ ~ret'.ok /\ ret'.err = "NoOutputPath"
          /\ reads' = reads /\ docs' = docs /\ writes' = writes /\ outFile' = outFile]_vars
\* Merge was called first on such a Merger and returned its error with
\* nothing read
C13_Witness ==
  /\ NoOutputPath /\ Len(config.InputPaths) = 2 /\ calls = 1 /\ op = "Merge" /\ pc = "idle"
  /\ ~ret.ok /\ ret.err = "NoOutputPath" /\ reads = <<>> /\ writes = 0

\* C14: every http(s) URL of the --input list is among the input paths
\* main hands to the merger, in the order given; none is dropped.
C14_UrlInputAccepted ==
  (mode = "cli" /\ pc # "start" /\ args.output # "" /\ Len(args.input) > 0) =>
     SelectSeq(config.InputPaths, IsHttp) = SelectSeq(args.input, IsHttp)

\* a Merge or GetStats call of the library or of main is under way
Piping == mode \in {"api", "cli"}
\* C15: inputs are processed one at a time in the order supplied: while
\* the loop runs, exactly the first idx-1 inputs have been read and
\* normalized, in order; a failing input ends the call at once with its
\* error, so no later input is read; mergeOpenAPI3 starts only with every
\* input normalized and walks the documents in the same order.
C15_InOrderFailFast ==
  /\ []((Piping /\ pc = "process") =>
          /\ idx \in 1..Len(config.InputPaths) /\ Len(docs) = idx - 1
          /\ \A i \in 1..(idx - 1) : processSwaggerFile(config, config.InputPaths[i]).ok /\ docs[i] = PipelineDocs[i]
          /\ Len(reads) >= idx - 1
          /\ LastN(reads, idx - 1) = SubSeq(config.InputPaths, 1, idx - 1))
  /\ []((Piping /\ pc \in {"merge", "fold", "write", "stats", "panic"}) =>
          /\ Len(docs) = Len(config.InputPaths) /\ AllOk(config.InputPaths)
          /\ \A i \in 2..Len(docs) : docs[i] = PipelineDocs[i]
          /\ pc = "merge" => docs[1] = PipelineDocs[1]
          /\ LastN(reads, Len(docs)) = config.InputPaths)
  /\ [][(Piping /\ reads' # reads) => (pc = "process" /\ reads' = Append(reads, config.InputPaths[idx]))]_vars
  /\ [][(Piping /\ pc = "process" /\ ~processSwaggerFile(config, config.InputPaths[idx]).ok) =>
          (pc' = AfterReturn /\ ~ret'.ok /\ ret'.at = config.InputPaths[idx] /\ docs' = docs)]_vars
  /\ [][(Piping /\ pc # "process" /\ pc' = "process") => (idx' = 1 /\ docs' = <<>>)]_vars
  /\ [][(pc = "fold" /\ pc' = "fold") => idx' = idx + 1]_vars
\* the first of two different inputs failed: the call returned its error
\* and the second input was never read
C15_Witness ==
  /\ mode = "api" /\ pc = "idle" /\ calls = 1 /\ ~ret.ok
  /\ Len(config.InputPaths) = 2 /\ config.InputPaths[1] # config.InputPaths[2]
  /\ ret.at = config.InputPaths[1] /\ reads = << config.InputPaths[1] >>
  /\ processSwaggerFile(config, config.InputPaths[2]).ok

\* C16: whatever the fold has done to the accumulator, its info,
\* openapiVersion, servers and the component kinds outside the five are
\* those the first document had; in a pipeline run the servers are the
\* configured list.
C16_FoldFrame ==
  (mode \in {"api", "cli", "unit_merge"} /\ Len(docs) >= 1) =>
     /\ docs[1].Info = OrigDocs[1].Info
     /\ docs[1].OpenAPI = OrigDocs[1].OpenAPI
     /\ docs[1].Servers = OrigDocs[1].Servers
     /\ docs[1].Components.nil = OrigDocs[1].Components.nil
     /\ KindField(docs[1], "SecuritySchemes") = KindField(OrigDocs[1], "SecuritySchemes")
     /\ Piping => (~docs[1].Servers.nil /\ docs[1].Servers.v = config.Servers.v)
\* two documents with different info were merged under a custom server
\* list, the later one declaring a security scheme under a name the first
\* one declares too, with another definition
C16_Witness ==
  /\ mode = "api" /\ Merged /\ Len(docs) = 2 /\ config.Servers = Some(CustomServers)
  /\ docs[2].Info # docs[1].Info
  /\ Size(docs[1].Paths) > Size(OrigDocs[1].Paths)
  /\ \E k \in Keys(KindField(docs[1], "SecuritySchemes")) \cap Keys(KindField(docs[2], "SecuritySchemes")) :
       KindField(docs[1], "SecuritySchemes").v[k] # KindField(docs[2], "SecuritySchemes").v[k]

\* detectSwaggerVersion has returned for the bytes args.raw
DetectDone == mode = "unit_detect" /\ pc = "done"
\* the bytes decode as YAML / as JSON into a map
DecodesAsYaml(raw) == raw.syntax \in {"yaml", "json"}
DecodesAsJson(raw) == raw.syntax \in {"json", "jsondup"}
\* the bytes hold one of the two version keys
HasVersionKey(raw) == ~raw.swagger.nil \/ ~raw.openapi.nil
\* the value of swagger when present, of openapi otherwise
VersionKeyValue(raw) == IF ~raw.swagger.nil THEN raw.swagger.v ELSE raw.openapi.v
\* C17: the YAML decode decides whenever it succeeds and finds a key, the
\* JSON decode only otherwise; swagger wins over openapi; with no key in
\* either decode detect fails with UnknownFormat and no VersionTag.
C17_DetectOrder ==
  DetectDone =>
     IF DecodesAsYaml(args.raw) /\ HasVersionKey(args.raw)
     THEN ret.ok /\ ret.v = [Version |-> VersionKeyValue(args.raw), IsYAML |-> TRUE]
     ELSE IF DecodesAsJson(args.raw) /\ HasVersionKey(args.raw)
     THEN ret.ok /\ ret.v = [Version |-> VersionKeyValue(args.raw), IsYAML |-> FALSE]
     ELSE ~ret.ok /\ ret.err = "UnknownFormat" /\ ret.v = <<>>
\* bytes holding both keys with different values were classified by the
\* value of swagger
C17_Witness ==
  /\ DetectDone /\ ~args.raw.swagger.nil /\ ~args.raw.openapi.nil
  /\ args.raw.swagger.v # args.raw.openapi.v
  /\ ret.ok /\ ret.v.Version = args.raw.swagger.v

\* the four fields of a document the fold reads
ReadFields(d) == << d.Paths, d.Components, d.Tags, d.Servers >>
\* C18: the merge result is the first document itself: after a merge of
\* two or more documents the first document holds the merged paths,
\* components and tags and is what mergeOpenAPI3 returns, while every
\* later document has, in every state, the paths, components, tags and
\* servers it entered with.
C18_FirstDocumentMutatedInPlace ==
  (mode \in {"api", "cli", "unit_merge"}) =>
     /\ \A i \in 2..Len(docs) : ReadFields(docs[i]) = ReadFields(OrigDocs[i])
     /\ (Merged /\ Len(docs) >= 2) =>
          /\ LastWins(docs[1].Paths, OrigDocs, PathsField)
          /\ \A kind \in MergedKinds :
               LastWins(KindField(docs[1], kind), OrigDocs, LAMBDA d : KindField(d, kind))
          /\ TagSeq(docs[1]) = ConcatTags(OrigDocs, Len(OrigDocs))
          /\ (op = "mergeOpenAPI3" /\ pc = "done") => ret.v = docs[1]
\* a merge of two or more documents after which the first document has
\* gained a path and a tag from a later document, which still has both
C18_Witness ==
  /\ Merged /\ Len(docs) >= 2
  /\ \E i \in 2..Len(docs) :
       /\ Keys(docs[i].Paths) \ Keys(OrigDocs[1].Paths) # {}
       /\ Keys(docs[i].Paths) \subseteq Keys(docs[1].Paths)
       /\ Len(TagSeq(docs[i])) > 0
       /\ Len(TagSeq(docs[1])) > Len(TagSeq(OrigDocs[1]))
  /\ docs[1] # OrigDocs[1]

\* C19: mergeOpenAPI3 and the statistics computation of GetStats never
\* dereference an absent paths or components object: whatever sections the
\* documents declare, no state is a nil pointer dereference.
C19_NoNilDereference == pc # "panic"

====
